---- MODULE Spec2Model ----
(***************************************************************************)
(* A model of the three scripts of the repository:                         *)
(*   scripts/fetch_trending.py   search calls, normalisation,              *)
(*                               deduplication, ranking, truncation        *)
(*   scripts/generate_site.py    the rule-based categorizer                *)
(*   scripts/sync_to_feishu.py   the search-then-create-or-update sync     *)
(*                               against the external table                *)
(* TLA+ modules are ASCII: the Chinese category and column names of the    *)
(* source are written here by an ASCII gloss, given where each is defined. *)
(***************************************************************************)
EXTENDS Integers, Sequences, FiniteSets, TLC

VARIABLES
    \* ---- fetch_trending.py ----
    fpc,          \* position in main(): "queries", "topics", "aggregate", "truncate", "done"
    call_idx,     \* index of the next entry of SEARCH_QUERIES / TOPICS to be requested
    all_repos,    \* fetch_all_trending: the raw items collected so far
    call_log,     \* history: one entry per search call issued, in order
    normalized,   \* fetch_all_trending: [normalize_repo(r) for r in all_repos]
    unique,       \* fetch_all_trending: deduplicate_repos(normalized), before the sort
    data,         \* the envelope returned by fetch_all_trending
    output,       \* the envelope main() writes, with the limit it was cut to
    \* ---- generate_site.py ----
    cpc,          \* "todo" before categorize_repo is applied to cat_repo, "done" after
    cat_repo,     \* the record handed to categorize_repo
    category,     \* the label categorize_repo returned for cat_repo
    \* ---- sync_to_feishu.py: the external store ----
    columns,      \* table id -> the names of the columns the table has
    rows,         \* table id -> the rows of the table, in creation order
    bases,        \* number of bases created so far
    \* ---- sync_to_feishu.py: one run of main() ----
    spc,          \* position in main() / sync_to_feishu()
    now,          \* number of the run, also the clock read for the updated-time column
    args,         \* the command line: dry_run, create_table, whether the input file exists
    config,       \* get_env_vars(): app_id, app_secret, base_id, table_id
    sync_repos,   \* main: repos, data["repositories"] of the input file
    token,        \* tenant access token
    base_id,      \* sync_to_feishu / setup_bitable: base_id
    table_id,     \* sync_to_feishu / setup_bitable: table_id
    missing_fields, \* ensure_fields_exist: missing_fields, as column names
    mi,           \* ensure_fields_exist: index of the next entry of missing_fields
    existing_fields, \* sync_to_feishu: existing_fields, as column names
    ri,           \* sync_to_feishu: i + 1, the position of the record being reconciled
    existing_id,  \* sync_to_feishu: existing_id of the record being reconciled
    created,      \* sync_to_feishu: created
    updated,      \* sync_to_feishu: updated
    failed,       \* sync_to_feishu: failed
    exit_code,    \* exit code of the process, None while it runs
    faults,       \* history: number of calls that failed so far, over all runs
    run_faults,   \* history: number of calls of this run that failed
    ncalls,       \* history: number of calls this run has issued to the store
    calls,        \* history: the calls this run has issued, in order, with their outcomes
    history       \* history: one entry per finished run

fetch_vars == <<fpc, call_idx, all_repos, call_log, normalized, unique, data, output>>
cat_vars   == <<cpc, cat_repo, category>>
store_vars == <<columns, rows, bases>>
run_vars   == <<spc, now, args, config, sync_repos, token, base_id, table_id, missing_fields, mi,
               existing_fields, ri, existing_id, created, updated, failed, exit_code,
               faults, run_faults, ncalls, calls, history>>
sync_vars  == <<store_vars, run_vars>>
vars       == <<fetch_vars, cat_vars, sync_vars>>

\* Python's None, for the string-valued fields of a record.
None == "<None>"

\* dict.get(key, default)
get(d, key, default) == IF key \in DOMAIN d THEN d[key] ELSE default

\* Python truthiness of an optional string: None and "" are falsy.
truthy(v) == v # None /\ v # ""

Min(a, b) == IF a <= b THEN a ELSE b
Max(a, b) == IF a >= b THEN a ELSE b

RECURSIVE Concat(_)
\* The concatenation of a sequence of sequences.
Concat(ss) == IF ss = <<>> THEN <<>> ELSE Head(ss) \o Concat(Tail(ss))

\* All sequences over S of length at most n.
SeqsUpTo(S, n) == UNION {[1..k -> S] : k \in 0..n}

(***************************************************************************)
(*                          fetch_trending.py                              *)
(***************************************************************************)

\* Bounds of the model.
NumQueries == 2     \* entries of SEARCH_QUERIES that are modelled
NumTopics  == 1     \* entries of TOPICS that are modelled
MaxItems   == 1     \* items in one search response
MaxLen     == 3     \* length of the collected stream when aggregation is checked alone

\* The full_name and stargazers_count values of the items.
FullNames == {"a/x", "b/y", ""}
Stars     == {50, 70, 90}

\* Raw items as the search API delivers them: a key may be absent.
RawItems ==
    {[full_name |-> n, stargazers_count |-> s] : n \in FullNames, s \in Stars}
        \cup {[full_name |-> n] : n \in FullNames}
        \cup {[stargazers_count |-> s] : s \in Stars}

\* The items the modelled search calls answer with.
FetchItems ==
    {[full_name |-> "a/x", stargazers_count |-> 50],
     [full_name |-> "b/y", stargazers_count |-> 70]}

\* What one search call can come to: the call raises (HTTPError, URLError,
\* timeout, undecodable body), or it returns a JSON object, which carries an
\* "items" list or does not.
CallOutcomes ==
    {[ok |-> FALSE]}
        \cup {[ok |-> TRUE, result |-> [items |-> s]] : s \in SeqsUpTo(FetchItems, MaxItems)}
        \cup {[ok |-> TRUE, result |-> [message |-> "no items"]]}

\* search_repositories / get_trending_by_topic: result.get("items", [])
items_of(result) == get(result, "items", <<>>)

normalize_repo(repo) ==
    [full_name        |-> get(repo, "full_name", None),
     stargazers_count |-> get(repo, "stargazers_count", 0)]

RECURSIVE dedup_keep_last(_)
\* A deduplication that keeps the last record of each full_name.
dedup_keep_last(repos) ==
    IF repos = <<>> THEN <<>>
    ELSE LET r    == Head(repos)
             rest == Tail(repos)
         IN  IF truthy(r.full_name) /\ \A j \in 1..Len(rest) : rest[j].full_name # r.full_name
             THEN <<r>> \o dedup_keep_last(rest)
             ELSE dedup_keep_last(rest)

RECURSIVE dedup_from(_, _, _)
\* The loop of deduplicate_repos: repos still to visit, the seen set, the unique list.
dedup_from(repos, seen, uniq) ==
    IF repos = <<>> THEN uniq
    ELSE LET full_name == Head(repos).full_name
         IN  IF truthy(full_name) /\ full_name \notin seen
             THEN dedup_from(Tail(repos), seen \cup {full_name}, Append(uniq, Head(repos)))
             ELSE dedup_from(Tail(repos), seen, uniq)

deduplicate_repos(repos) == dedup_from(repos, {}, <<>>)

RECURSIVE insert_before_ties(_, _)
\* Insertion that puts a record in front of the records with an equal key.
insert_before_ties(s, r) ==
    IF s = <<>> THEN <<r>>
    ELSE IF Head(s).stargazers_count > r.stargazers_count
         THEN <<Head(s)>> \o insert_before_ties(Tail(s), r)
         ELSE <<r>> \o s

RECURSIVE insert_desc(_, _)
\* list.sort is stable, with reverse=True too: a record goes behind every
\* record placed earlier whose key is greater or equal.
insert_desc(s, r) ==
    IF s = <<>> THEN <<r>>
    ELSE IF Head(s).stargazers_count >= r.stargazers_count
         THEN <<Head(s)>> \o insert_desc(Tail(s), r)
         ELSE <<r>> \o s

RECURSIVE sort_by_stars(_)
\* unique.sort(key=lambda x: x.get("stargazers_count", 0), reverse=True)
sort_by_stars(s) ==
    IF s = <<>> THEN <<>>
    ELSE insert_desc(sort_by_stars(SubSeq(s, 1, Len(s) - 1)), s[Len(s)])

\* Ranking first and deduplicating the ranked list.
dedup_after_rank(norm) == deduplicate_repos(sort_by_stars(norm))

\* fetch_all_trending: the repositories of the envelope.
ranked_unique(norm) == sort_by_stars(deduplicate_repos(norm))

\* A slice that ignores the limit.
slice_all(s, limit) == s

\* s[:limit]: a negative limit counts from the end.
slice_to(s, limit) ==
    IF limit >= 0 THEN SubSeq(s, 1, Min(limit, Len(s)))
    ELSE SubSeq(s, 1, Max(0, Len(s) + limit))

\* all_repos = repos in place of all_repos.extend(repos).
collected_overwrite(all, outcome) ==
    IF outcome.ok THEN items_of(outcome.result) ELSE all

\* The body of one loop round: all_repos.extend(repos) in the try block,
\* nothing in the except block.
collected(all, outcome) ==
    IF outcome.ok THEN all \o items_of(outcome.result) ELSE all

\* The limits a caller can pass with -l (argparse type=int).
Limits == (-2)..(MaxLen + 1)

NoEnvelope == [total_count |-> -1, repositories |-> <<>>]
NoOutput   == [limit |-> 0, total_count |-> -1, repositories |-> <<>>]

IdleFetch ==
    /\ fpc = "idle" /\ call_idx = 0 /\ all_repos = <<>> /\ call_log = <<>>
    /\ normalized = <<>> /\ unique = <<>> /\ data = NoEnvelope /\ output = NoOutput

\* The sync script has not been started.
IdleSync ==
    /\ columns = <<>> /\ rows = <<>> /\ bases = 0
    /\ spc = "idle" /\ now = 0
    /\ args = [dry_run |-> FALSE] /\ config = [app_id |-> None] /\ sync_repos = <<>>
    /\ token = None /\ base_id = None /\ table_id = None
    /\ missing_fields = <<>> /\ mi = 0 /\ existing_fields = {}
    /\ ri = 0 /\ existing_id = None /\ created = 0 /\ updated = 0 /\ failed = 0
    /\ exit_code = None /\ faults = 0 /\ run_faults = 0 /\ ncalls = 0 /\ calls = <<>>
    /\ history = <<>>

IdleCat == cpc = "idle" /\ cat_repo = [name |-> ""] /\ category = None

\* main() up to the first search call.
InitFetch ==
    /\ fpc = "queries" /\ call_idx = 1
    /\ all_repos = <<>> /\ call_log = <<>>
    /\ normalized = <<>> /\ unique = <<>>
    /\ data = NoEnvelope /\ output = NoOutput
    /\ IdleCat /\ IdleSync

\* A loop that issues the call of an entry again when it has raised.
retry_failed(idx, outcome) == IF outcome.ok THEN idx + 1 ELSE idx

\* for query in SEARCH_QUERIES / for topic in TOPICS: the entry of the
\* next round, whatever the call of this round has come to.
next_entry(idx, outcome) == idx + 1

\* One round of the loop over SEARCH_QUERIES.
SearchQuery ==
    /\ fpc = "queries"
    /\ \E outcome \in CallOutcomes :
        /\ all_repos' = collected(all_repos, outcome)
        /\ call_log' = Append(call_log, [kind |-> "query", idx |-> call_idx, outcome |-> outcome])
        /\ IF next_entry(call_idx, outcome) <= NumQueries
           THEN fpc' = "queries" /\ call_idx' = next_entry(call_idx, outcome)
           ELSE fpc' = "topics" /\ call_idx' = 1
    /\ UNCHANGED <<normalized, unique, data, output, cat_vars, sync_vars>>

\* One round of the loop over TOPICS.
TopicCall ==
    /\ fpc = "topics"
    /\ \E outcome \in CallOutcomes :
        /\ all_repos' = collected(all_repos, outcome)
        /\ call_log' = Append(call_log, [kind |-> "topic", idx |-> call_idx, outcome |-> outcome])
        /\ IF next_entry(call_idx, outcome) <= NumTopics
           THEN fpc' = "topics" /\ call_idx' = next_entry(call_idx, outcome)
           ELSE fpc' = "aggregate" /\ call_idx' = 0
    /\ UNCHANGED <<normalized, unique, data, output, cat_vars, sync_vars>>

\* The tail of fetch_all_trending: normalise, deduplicate, sort, return.
Aggregate ==
    /\ fpc = "aggregate"
    /\ normalized' = [i \in 1..Len(all_repos) |-> normalize_repo(all_repos[i])]
    /\ unique' = deduplicate_repos(normalized')
    /\ data' = [total_count  |-> Len(unique'),
                repositories |-> ranked_unique(normalized')]
    /\ fpc' = "truncate"
    /\ UNCHANGED <<call_idx, all_repos, call_log, output, cat_vars, sync_vars>>

\* main(): cut the envelope to args.limit and write it.
Truncate ==
    /\ fpc = "truncate"
    /\ \E limit \in Limits :
        LET repositories == slice_to(data.repositories, limit)
        IN  output' = [limit        |-> limit,
                       total_count  |-> Len(repositories),
                       repositories |-> repositories]
    /\ fpc' = "done"
    /\ UNCHANGED <<call_idx, all_repos, call_log, normalized, unique, data, cat_vars, sync_vars>>

NextFetch == SearchQuery \/ TopicCall \/ Aggregate \/ Truncate

\* The whole fetch script, from its first search call on.
SpecFetch == InitFetch /\ [][NextFetch]_vars

\* The search loops are over and have collected an arbitrary stream: the
\* first query answered with it, every other call with an empty list.
InitAgg ==
    /\ fpc = "aggregate" /\ call_idx = 0
    /\ all_repos \in SeqsUpTo(RawItems, MaxLen)
    /\ call_log =
         [k \in 1..(NumQueries + NumTopics) |->
            [kind    |-> IF k <= NumQueries THEN "query" ELSE "topic",
             idx     |-> IF k <= NumQueries THEN k ELSE k - NumQueries,
             outcome |-> [ok |-> TRUE,
                          result |-> [items |-> IF k = 1 THEN all_repos ELSE <<>>]]]]
    /\ normalized = <<>> /\ unique = <<>>
    /\ data = NoEnvelope /\ output = NoOutput
    /\ IdleCat /\ IdleSync

NextAgg == Aggregate \/ Truncate

\* Aggregation and truncation over every stream up to MaxLen items.
SpecAgg == InitAgg /\ [][NextAgg]_vars

\* Bound of the model.
MaxRequests == 3    \* calls of make_request that are compared with one another

\* What urlopen and the decoding of the body can come to: a response with an
\* HTTP status (urlopen raises HTTPError for a status that is no success),
\* whose body is a JSON object or is not, or a failure without a response:
\* the name is not resolved, the connection is refused or times out
\* (urlopen raises URLError), or the read of the body times out
\* (response.read raises TimeoutError).
Statuses == {200, 403, 404, 500, 503}
Failures == {"dns", "refused", "connect_timeout", "read_timeout"}
Responses ==
    {[status |-> st, json |-> TRUE] : st \in Statuses}
        \cup {[status |-> 200, json |-> FALSE]}
        \cup {[failure |-> f] : f \in Failures}

\* A make_request that raises one exception for every failure.
make_request_one_error(response) ==
    IF "status" \in DOMAIN response /\ response.status = 200 /\ response.json
    THEN [returned |-> TRUE, stderr |-> None]
    ELSE [returned |-> FALSE, raised |-> [class |-> "Exception"], stderr |-> None]

\* make_request: the decoded body, or the exception that leaves the function
\* and the line printed before it is raised again. HTTPError carries the
\* status in e.code; only HTTPError and URLError are caught and raised again,
\* the other exceptions pass through.
make_request(response) ==
    IF "status" \in DOMAIN response
    THEN IF response.status = 200
         THEN IF response.json
              THEN [returned |-> TRUE, stderr |-> None]
              ELSE [returned |-> FALSE, raised |-> [class |-> "JSONDecodeError"], stderr |-> None]
         ELSE [returned |-> FALSE,
               raised |-> [class |-> "HTTPError", code |-> response.status],
               stderr |-> IF response.status = 403 THEN "Rate limit exceeded" ELSE None]
    ELSE IF response.failure = "read_timeout"
         THEN [returned |-> FALSE, raised |-> [class |-> "TimeoutError"], stderr |-> None]
         ELSE [returned |-> FALSE, raised |-> [class |-> "URLError"], stderr |-> "Network error"]

\* The Search Client is about to be called.
InitRequest ==
    /\ fpc = "request" /\ call_idx = 1
    /\ all_repos = <<>> /\ call_log = <<>>
    /\ normalized = <<>> /\ unique = <<>>
    /\ data = NoEnvelope /\ output = NoOutput
    /\ IdleCat /\ IdleSync

\* One call of make_request, on whatever the network comes to.
MakeRequest ==
    /\ fpc = "request"
    /\ call_idx <= MaxRequests
    /\ \E response \in Responses :
        call_log' = Append(call_log, [kind |-> "request", idx |-> call_idx,
                                      response |-> response,
                                      outcome |-> make_request(response)])
    /\ call_idx' = call_idx + 1
    /\ UNCHANGED <<fpc, all_repos, normalized, unique, data, output, cat_vars, sync_vars>>

NextRequest == MakeRequest

\* Calls of the Search Client, one after the other.
SpecRequest == InitRequest /\ [][NextRequest]_vars

(***************************************************************************)
(*                          generate_site.py                               *)
(***************************************************************************)

\* Bound of the model.
MaxTopics == 2      \* topics of a record handed to the categorizer

\* CATEGORY_RULES in declaration order (a dict keeps insertion order). The
\* category names of the source, in the same order:
\*   AgentFramework   zhi neng ti kuang jia
\*   AutonomousAgent  zi zhu zhi neng ti
\*   CodeAssistant    dai ma zhu shou
\*   ChatSystem       dui hua xi tong
\*   RAG              RAG / zhi shi ku
\*   DevTools         kai fa gong ju
\*   DataAnalysis     shu ju fen xi
\*   Other            qi ta
CATEGORY_RULES ==
    << [category |-> "AgentFramework",
        keywords |-> <<"agent-framework", "langchain", "crewai", "autogen", "llamaindex",
                       "semantic-kernel", "agents", "multi-agent">>],
       [category |-> "AutonomousAgent",
        keywords |-> <<"autogpt", "auto-gpt", "autonomous", "gpt-engineer", "devin",
                       "openinterpreter", "open-interpreter">>],
       [category |-> "CodeAssistant",
        keywords |-> <<"copilot", "code-assistant", "code-generation", "cursor", "cline",
                       "aider", "continue", "code-completion", "ide">>],
       [category |-> "ChatSystem",
        keywords |-> <<"chatbot", "chat", "nextchat", "chatgpt", "openwebui", "lobe-chat",
                       "conversation">>],
       [category |-> "RAG",
        keywords |-> <<"rag", "knowledge-base", "vector", "embedding", "ragflow",
                       "anything-llm", "dify", "fastgpt">>],
       [category |-> "DevTools",
        keywords |-> <<"sdk", "api", "tool", "cli", "library", "boilerplate", "template">>],
       [category |-> "DataAnalysis",
        keywords |-> <<"data", "analytics", "visualization", "dashboard", "pandas", "chart">>],
       [category |-> "Other",
        keywords |-> <<>>] >>

\* str.lower on the letters A-Z: the lowercase letter of each.
LowerOf ==
    [A |-> "a", B |-> "b", C |-> "c", D |-> "d", E |-> "e", F |-> "f", G |-> "g",
     H |-> "h", I |-> "i", J |-> "j", K |-> "k", L |-> "l", M |-> "m", N |-> "n",
     O |-> "o", P |-> "p", Q |-> "q", R |-> "r", S |-> "s", T |-> "t", U |-> "u",
     V |-> "v", W |-> "w", X |-> "x", Y |-> "y", Z |-> "z"]

\* str.lower on one character.
lower_char(c) == IF c \in DOMAIN LowerOf THEN LowerOf[c] ELSE c

RECURSIVE lower(_)
\* str.lower
lower(s) ==
    IF Len(s) = 0 THEN ""
    ELSE lower_char(SubSeq(s, 1, 1)) \o lower(SubSeq(s, 2, Len(s)))

\* keyword in text: substring containment.
contains(text, keyword) ==
    \E i \in 1..(Len(text) - Len(keyword) + 1) :
        SubSeq(text, i, i + Len(keyword) - 1) = keyword

RECURSIVE join(_, _)
\* sep.join(parts)
join(parts, sep) ==
    IF parts = <<>> THEN ""
    ELSE IF Len(parts) = 1 THEN parts[1]
    ELSE parts[1] \o sep \o join(Tail(parts), sep)

\* categorize_repo: the lowercased topics, description and name.
lowered_topics(repo) ==
    LET topics == get(repo, "topics", <<>>)
    IN  [i \in 1..Len(topics) |-> lower(topics[i])]

lowered_desc(repo) ==
    LET description == get(repo, "description", None)
    IN  lower(IF truthy(description) THEN description ELSE "")

lowered_name(repo) == lower(get(repo, "name", ""))

\* The parts joined without a separator.
all_text_unseparated(repo) ==
    join(lowered_topics(repo) \o <<lowered_desc(repo), lowered_name(repo)>>, "")

\* all_text = " ".join(topics + [desc, name])
all_text(repo) ==
    join(lowered_topics(repo) \o <<lowered_desc(repo), lowered_name(repo)>>, " ")

\* Falling through the loop without a label.
no_match_none == None

\* return "Other" after the loop
no_match_label == "Other"

\* The inner loop: some keyword of the rule is in the text.
rule_hits(rule, text) ==
    \E k \in 1..Len(rule.keywords) : contains(text, rule.keywords[k])

RECURSIVE last_match(_, _)
\* A scan in which a later matching rule overrides an earlier one.
last_match(text, i) ==
    IF i > Len(CATEGORY_RULES) THEN no_match_label
    ELSE LET later == last_match(text, i + 1)
         IN  IF later # no_match_label THEN later
             ELSE IF CATEGORY_RULES[i].category # "Other" /\ rule_hits(CATEGORY_RULES[i], text)
                  THEN CATEGORY_RULES[i].category
                  ELSE no_match_label

RECURSIVE first_match(_, _)
\* The outer loop from rule i on: the "Other" rule is skipped, the first rule
\* with a keyword in the text is returned.
first_match(text, i) ==
    IF i > Len(CATEGORY_RULES) THEN no_match_label
    ELSE IF CATEGORY_RULES[i].category # "Other" /\ rule_hits(CATEGORY_RULES[i], text)
         THEN CATEGORY_RULES[i].category
         ELSE first_match(text, i + 1)

categorize_repo(repo) == first_match(all_text(repo), 1)

\* The records handed to the categorizer.
TopicPool == {"langchain-agent", "lang", "chain", "chatbot", "LLM"}
DescPool  == {None, "", "A RAG demo", "chain", "LangChain Toolkit", "Data API",
              "nothing special"}
NamePool  == {"foo", "AutoGPT", "chat-ui"}

CatRepos ==
    {[topics |-> t, description |-> d, name |-> n] :
        t \in SeqsUpTo(TopicPool, MaxTopics), d \in DescPool, n \in NamePool}
      \cup {[description |-> d, name |-> n] : d \in DescPool, n \in NamePool}

\* generate_site: a record of the envelope is about to be categorized.
InitCat ==
    /\ cpc = "todo"
    /\ cat_repo \in CatRepos
    /\ category = None
    /\ IdleFetch /\ IdleSync

\* category = categorize_repo(repo)
Categorize ==
    /\ cpc = "todo"
    /\ category' = categorize_repo(cat_repo)
    /\ cpc' = "done"
    /\ UNCHANGED <<cat_repo, fetch_vars, sync_vars>>

NextCat == Categorize

\* The categorizer applied to every record of CatRepos.
SpecCat == InitCat /\ [][NextCat]_vars

(***************************************************************************)
(*                          sync_to_feishu.py                              *)
(***************************************************************************)

\* Bounds of the model.
MaxRepos  == 2      \* records of the input file
MaxRuns   == 2      \* runs of the script, one after the other
MaxFaults == 1      \* calls to the store that fail, over all runs

\* FIELD_DEFINITIONS, in order. The column names of the source, in the same
\* order: xiang mu ming cheng (project_name), miao shu (description), Stars,
\* Forks, yu yan (language), lian jie (link), zuo zhe (author), biao qian
\* (tags), geng xin shi jian (updated_time), shi fou yi du (is_read),
\* shi fou guan zhu (is_followed), bei zhu (note).
FIELD_DEFINITIONS ==
    << [field_name |-> "project_name", type |-> 1],
       [field_name |-> "description",  type |-> 3],
       [field_name |-> "Stars",        type |-> 2],
       [field_name |-> "Forks",        type |-> 2],
       [field_name |-> "language",     type |-> 3],
       [field_name |-> "link",         type |-> 15],
       [field_name |-> "author",       type |-> 1],
       [field_name |-> "tags",         type |-> 1],
       [field_name |-> "updated_time", type |-> 5],
       [field_name |-> "is_read",      type |-> 7],
       [field_name |-> "is_followed",  type |-> 7],
       [field_name |-> "note",         type |-> 3] >>

FieldNames == {FIELD_DEFINITIONS[k].field_name : k \in 1..Len(FIELD_DEFINITIONS)}

\* {}: the empty dict.
EmptyDict == [k \in {} |-> None]

\* The records of the input file, in the shape normalize_repo gives them.
RepoA ==
    [full_name |-> "a/x", name |-> "x", description |-> "An agent",
     stargazers_count |-> 50, forks_count |-> 5, language |-> "Python",
     html_url |-> "https://github.com/a/x", owner |-> [login |-> "a"],
     topics |-> <<"ai", "agent">>]
RepoB ==
    [full_name |-> "b/y", name |-> "y", description |-> None,
     stargazers_count |-> 70, forks_count |-> 7, language |-> None,
     html_url |-> "https://github.com/b/y", owner |-> [login |-> "b"],
     topics |-> <<>>]
SyncRepos == {RepoA, RepoB}

\* The same records as a later fetch delivers them: new counts, edited text.
changed(repo) ==
    [repo EXCEPT !.stargazers_count = @ + 1, !.forks_count = @ + 1,
                 !.description = "Edited", !.language = "Go"]

\* The command lines and environments of a run.
ArgsSet ==
    {[dry_run |-> FALSE, create_table |-> FALSE, input_exists |-> TRUE],
     [dry_run |-> TRUE,  create_table |-> FALSE, input_exists |-> TRUE],
     [dry_run |-> FALSE, create_table |-> TRUE,  input_exists |-> TRUE],
     [dry_run |-> TRUE,  create_table |-> TRUE,  input_exists |-> TRUE],
     [dry_run |-> FALSE, create_table |-> FALSE, input_exists |-> FALSE]}

ConfigSet ==
    {[app_id |-> "app", app_secret |-> "secret", base_id |-> "base0", table_id |-> "tbl0"],
     [app_id |-> "app", app_secret |-> "secret", base_id |-> None,    table_id |-> None],
     [app_id |-> "app", app_secret |-> "secret", base_id |-> "base0", table_id |-> None],
     [app_id |-> "app", app_secret |-> None,     base_id |-> "base0", table_id |-> "tbl0"]}

\* The table the environment names is tbl0; run k provisions base k with
\* table k when it is given no ids.
BaseId(k)  == "base" \o ToString(k)
TableId(k) == "tbl" \o ToString(k)
TableIds   == {TableId(k) : k \in 0..MaxRuns}

\* The columns tbl0 can have before the first run.
InitialColumns == {{}, FieldNames \ {"note"}, FieldNames}

\* record_id of the k-th row of a table.
RecordId(k) == "rec" \o ToString(k)

\* What a call to the store can come to: a response with code 0, a response
\* with another code, or an exception (HTTPError, URLError, timeout) raised
\* by make_feishu_request.
Outcomes == {"ok", "err", "raise"}

\* create_record: the value of every column for the record, and whether the
\* record has one for it (tags only when the record has topics).
record_fields(repo, clock) ==
    LET description == get(repo, "description", "")
    IN  [project_name |-> repo.full_name,
         description  |-> IF truthy(get(repo, "description", None))
                          THEN SubSeq(description, 1, Min(2000, Len(description)))
                          ELSE "",
         Stars        |-> get(repo, "stargazers_count", 0),
         Forks        |-> get(repo, "forks_count", 0),
         language     |-> get(repo, "language", "Unknown"),
         link         |-> [link |-> repo.html_url, text |-> repo.name],
         author       |-> get(get(repo, "owner", EmptyDict), "login", ""),
         tags         |-> join(SubSeq(get(repo, "topics", <<>>), 1,
                                      Min(10, Len(get(repo, "topics", <<>>)))), ", "),
         updated_time |-> clock]

\* A create_record that sends the tags column whatever the topics are.
has_value_always(repo, k) == TRUE

has_value(repo, k) == k = "tags" => get(repo, "topics", <<>>) # <<>>

\* A create_record that leaves the name column out of the new row.
create_fields_unnamed(repo, fields, clock) ==
    LET keys == {k \in DOMAIN record_fields(repo, clock) :
                    k \in fields \ {"project_name"} /\ has_value(repo, k)}
    IN  [k \in keys |-> record_fields(repo, clock)[k]]

\* create_record: the fields of the new row, those of the columns the table has.
create_fields(repo, fields, clock) ==
    LET keys == {k \in DOMAIN record_fields(repo, clock) :
                    k \in fields /\ has_value(repo, k)}
    IN  [k \in keys |-> record_fields(repo, clock)[k]]

\* An update_record that also refreshes the description and the language.
update_fields_with_text(repo, fields, clock) ==
    LET full == [Stars        |-> get(repo, "stargazers_count", 0),
                 Forks        |-> get(repo, "forks_count", 0),
                 description  |-> get(repo, "description", ""),
                 language     |-> get(repo, "language", "Unknown"),
                 updated_time |-> clock]
    IN  [k \in DOMAIN full \cap fields |-> full[k]]

\* An update_record that leaves the star count out.
update_fields_no_stars(repo, fields, clock) ==
    LET full == [Forks        |-> get(repo, "forks_count", 0),
                 updated_time |-> clock]
    IN  [k \in DOMAIN full \cap fields |-> full[k]]

\* update_record: the fields written to the existing row.
update_fields(repo, fields, clock) ==
    LET full == [Stars        |-> get(repo, "stargazers_count", 0),
                 Forks        |-> get(repo, "forks_count", 0),
                 updated_time |-> clock]
    IN  [k \in DOMAIN full \cap fields |-> full[k]]

\* The store writes the given fields over a row and leaves its other fields.
written(row, fields) ==
    [k \in DOMAIN row \cup DOMAIN fields |-> IF k \in DOMAIN fields THEN fields[k] ELSE row[k]]

\* The store's answer to the search filter: project_name is full_name.
matching_rows(table_rows, full_name) ==
    {k \in 1..Len(table_rows) :
        "project_name" \in DOMAIN table_rows[k] /\ table_rows[k].project_name = full_name}

\* A search that answers with the first row of the table whatever its name.
search_any_row(table_rows, full_name, outcome) ==
    IF outcome = "ok" /\ table_rows # <<>> THEN RecordId(1) ELSE None

\* search_existing_record: the record_id of the first item, None when the
\* response has another code than 0 or no item.
search_existing_record(table_rows, full_name, outcome) ==
    IF outcome = "ok" /\ matching_rows(table_rows, full_name) # {}
    THEN RecordId(CHOOSE k \in matching_rows(table_rows, full_name) :
                      \A j \in matching_rows(table_rows, full_name) : k <= j)
    ELSE None

\* The row a record_id names.
RowIndex(table_rows, record_id) == CHOOSE k \in 1..Len(table_rows) : RecordId(k) = record_id

\* validate_config: every required key of the configuration has a value.
validate_config(cfg, require_table) ==
    /\ truthy(cfg.app_id) /\ truthy(cfg.app_secret)
    /\ require_table => truthy(cfg.base_id) /\ truthy(cfg.table_id)

ids_supplied == truthy(config.base_id) /\ truthy(config.table_id)
has_credentials == truthy(config.app_id) /\ truthy(config.app_secret)

\* The command line of a plain sync run.
plain(a) == ~ a.dry_run /\ ~ a.create_table /\ a.input_exists

\* The first run is about to start. tbl0 matters to a plain run that is
\* given its id, the other runs start from the complete table; a run that
\* does not read the input file has the empty list. The loop on a table the
\* run has provisioned is the loop on an empty tbl0, and is left to it but
\* for one record; so is the loop on a tbl0 that lacks columns, which
\* differs from the loop on the complete tbl0 in the fields it writes.
InitSync ==
    /\ args \in ArgsSet
    /\ config \in ConfigSet
    /\ sync_repos \in SeqsUpTo(SyncRepos, MaxRepos)
    /\ args.create_table \/ ~ args.input_exists => sync_repos = <<>>
    /\ ~ plain(args) => truthy(config.table_id)
    /\ ~ ids_supplied => sync_repos \in {<<>>, <<RepoA>>}
    /\ \E c0 \in InitialColumns :
          /\ c0 # FieldNames => plain(args) /\ ids_supplied /\ has_credentials
          /\ c0 # FieldNames => Len(sync_repos) <= 1
          /\ columns = [t \in TableIds |-> IF t = TableId(0) THEN c0 ELSE {}]
    /\ rows = [t \in TableIds |-> <<>>]
    /\ bases = 0
    /\ spc = "main" /\ now = 1
    /\ token = None /\ base_id = None /\ table_id = None
    /\ missing_fields = <<>> /\ mi = 0 /\ existing_fields = {}
    /\ ri = 0 /\ existing_id = None /\ created = 0 /\ updated = 0 /\ failed = 0
    /\ exit_code = None /\ faults = 0 /\ run_faults = 0 /\ ncalls = 0 /\ calls = <<>>
    /\ history = <<>>
    /\ IdleFetch /\ IdleCat

\* The failures that can come: MaxFaults over the runs of a plain sync on
\* the table it is given, one over the runs that provision their table.
FaultCap == IF plain(args) /\ ids_supplied THEN MaxFaults ELSE 1

\* A call with this outcome can be issued: the failures are bounded.
CanCome(outcome) == outcome = "ok" \/ faults < FaultCap

\* The call is counted, and its failure if it fails.
Issue(op, arg, outcome) ==
    /\ calls' = Append(calls, [op |-> op, arg |-> arg, outcome |-> outcome])
    /\ ncalls' = ncalls + 1
    /\ faults' = IF outcome = "ok" THEN faults ELSE faults + 1
    /\ run_faults' = IF outcome = "ok" THEN run_faults ELSE run_faults + 1

\* A call that writes a row: the fields it sends, the record_id it names
\* (None for a create) and the row as it was before the call ({} for a create).
IssueWrite(op, arg, outcome, sent, record_id, before) ==
    /\ calls' = Append(calls, [op |-> op, arg |-> arg, outcome |-> outcome,
                                sent |-> sent, record_id |-> record_id, before |-> before])
    /\ ncalls' = ncalls + 1
    /\ faults' = IF outcome = "ok" THEN faults ELSE faults + 1
    /\ run_faults' = IF outcome = "ok" THEN run_faults ELSE run_faults + 1

\* The process ends: main returns code, or an exception nobody caught ends
\* it with exit code 1.
Exit(kind, code) ==
    /\ spc' = "exited"
    /\ exit_code' = code
    /\ history' = Append(history,
          [run |-> now, kind |-> kind, exit_code |-> code, args |-> args, repos |-> sync_repos,
           created |-> created, updated |-> updated, failed |-> failed,
           base_id |-> base_id, table_id |-> table_id,
           ncalls |-> ncalls', clean |-> run_faults' = 0,
           columns_created |-> Cardinality({n \in 1..Len(calls') : calls'[n].op = "create_field"}),
           rows_after |-> IF table_id \in TableIds THEN Len(rows[table_id]) ELSE 0])

Crash == Exit("crash", 1)

local_vars == <<token, base_id, table_id, missing_fields, mi, existing_fields, ri,
                existing_id, created, updated, failed>>
input_vars == <<now, args, config, sync_repos>>

other_vars == <<fetch_vars, cat_vars>>

\* The process goes on.
Running == UNCHANGED <<exit_code, history>>

\* main() up to the token exchange: the --create-table branch, the input
\* file, the dry run, and the credential test of sync_to_feishu.
Main ==
    /\ spc = "main"
    /\ UNCHANGED <<store_vars, input_vars, local_vars, faults, run_faults, ncalls, calls, other_vars>>
    /\ IF args.create_table
       THEN IF has_credentials THEN spc' = "token" /\ Running ELSE Exit("error", 1)
       ELSE IF ~ args.input_exists THEN Exit("error", 1)
       ELSE IF args.dry_run THEN Exit("dry_run", 0)
       ELSE IF has_credentials THEN spc' = "token" /\ Running ELSE Exit("error", 1)

\* A token exchange that does not look at the response code.
token_raises_unless_answered(outcome) == outcome = "raise"

\* get_tenant_access_token raises: the request raised, or the response code
\* is not 0.
token_raises(outcome) == outcome # "ok"

\* get_tenant_access_token, and the branch on base_id / table_id after it.
GetTenantAccessToken ==
    /\ spc = "token"
    /\ \E outcome \in Outcomes :
        /\ CanCome(outcome)
        /\ Issue("token", "", outcome)
        /\ IF ~ token_raises(outcome)
           THEN /\ token' = "tok"
                /\ IF args.create_table
                   THEN UNCHANGED <<base_id, table_id>>
                   ELSE base_id' = config.base_id /\ table_id' = config.table_id
                /\ spc' = IF args.create_table \/ ~ ids_supplied
                          THEN "create_bitable" ELSE "ensure_get"
                /\ Running
           ELSE Crash /\ UNCHANGED <<token, base_id, table_id>>
    /\ UNCHANGED <<store_vars, input_vars, missing_fields, mi, existing_fields, ri,
                   existing_id, created, updated, failed, other_vars>>

\* setup_bitable: create_bitable.
CreateBitable ==
    /\ spc = "create_bitable"
    /\ \E outcome \in Outcomes :
        /\ CanCome(outcome)
        /\ Issue("create_bitable", "", outcome)
        /\ IF outcome = "ok"
           THEN /\ bases' = bases + 1
                /\ base_id' = BaseId(bases + 1)
                /\ spc' = "get_default_table"
                /\ Running
           ELSE Crash /\ UNCHANGED <<bases, base_id>>
    /\ UNCHANGED <<columns, rows, input_vars, token, table_id, missing_fields, mi,
                   existing_fields, ri, existing_id, created, updated, failed, other_vars>>

\* get_default_table: the first table of the response, None when the
\* response has another code than 0 or no table.
get_default_table(tables, outcome) ==
    IF outcome = "ok" /\ tables # <<>> THEN tables[1] ELSE None

\* The call that lists the tables of the base, with the tables the base has.
IssueList(op, arg, outcome, tables) ==
    /\ calls' = Append(calls, [op |-> op, arg |-> arg, outcome |-> outcome, tables |-> tables])
    /\ ncalls' = ncalls + 1
    /\ faults' = IF outcome = "ok" THEN faults ELSE faults + 1
    /\ run_faults' = IF outcome = "ok" THEN run_faults ELSE run_faults + 1

\* setup_bitable: get_default_table. The new base has a first table or has none.
GetDefaultTable ==
    /\ spc = "get_default_table"
    /\ \E outcome \in Outcomes, has_default \in BOOLEAN :
        LET tables == IF has_default THEN <<TableId(bases)>> ELSE <<>>
            table  == get_default_table(tables, outcome)
        IN  /\ CanCome(outcome)
            /\ IssueList("get_default_table", base_id, outcome, tables)
            /\ IF outcome = "raise"
               THEN Crash /\ UNCHANGED table_id
               ELSE /\ IF truthy(table)
                       THEN table_id' = table /\ spc' = "ensure_get"
                       ELSE UNCHANGED table_id /\ spc' = "create_table"
                    /\ Running
    /\ UNCHANGED <<store_vars, input_vars, token, base_id, missing_fields, mi,
                   existing_fields, ri, existing_id, created, updated, failed, other_vars>>

\* setup_bitable: create_table. The new table comes with the default column
\* the request names.
CreateTable ==
    /\ spc = "create_table"
    /\ \E outcome \in Outcomes :
        /\ CanCome(outcome)
        /\ Issue("create_table", base_id, outcome)
        /\ IF outcome = "ok"
           THEN /\ columns' = [columns EXCEPT ![TableId(bases)] = {"project_name"}]
                /\ table_id' = TableId(bases)
                /\ spc' = "ensure_get"
                /\ Running
           ELSE Crash /\ UNCHANGED <<columns, table_id>>
    /\ UNCHANGED <<rows, bases, input_vars, token, base_id, missing_fields, mi,
                   existing_fields, ri, existing_id, created, updated, failed, other_vars>>

\* get_table_fields: the column names of the response, {} when the response
\* has another code than 0.
get_table_fields(table_columns, outcome) == IF outcome = "ok" THEN table_columns ELSE {}

\* An ensure_fields_exist that takes every field of FIELD_DEFINITIONS for missing.
missing_of_all(fetched) ==
    [k \in 1..Len(FIELD_DEFINITIONS) |-> FIELD_DEFINITIONS[k].field_name]

\* ensure_fields_exist: the names of FIELD_DEFINITIONS not among the fetched ones.
missing_of(fetched) ==
    LET names == [k \in 1..Len(FIELD_DEFINITIONS) |-> FIELD_DEFINITIONS[k].field_name]
        Absent(n) == n \notin fetched
    IN  SelectSeq(names, Absent)

\* The call that fetches the columns of the table, with the column set
\* get_table_fields makes of the response.
IssueFetch(op, arg, outcome, fetched) ==
    /\ calls' = Append(calls, [op |-> op, arg |-> arg, outcome |-> outcome, fetched |-> fetched])
    /\ ncalls' = ncalls + 1
    /\ faults' = IF outcome = "ok" THEN faults ELSE faults + 1
    /\ run_faults' = IF outcome = "ok" THEN run_faults ELSE run_faults + 1

\* ensure_fields_exist has returned to setup_bitable or sync_to_feishu;
\* after setup_bitable, main --create-table returns 0.
AfterEnsure ==
    IF args.create_table THEN Exit("created_table", 0)
    ELSE spc' = "get_fields" /\ Running

\* ensure_fields_exist: get_table_fields and the list of missing fields.
EnsureGetTableFields ==
    /\ spc = "ensure_get"
    /\ \E outcome \in Outcomes :
        /\ CanCome(outcome)
        /\ IssueFetch("ensure_get_fields", table_id, outcome,
                      get_table_fields(columns[table_id], outcome))
        /\ IF outcome = "raise"
           THEN Crash /\ UNCHANGED <<missing_fields, mi>>
           ELSE /\ missing_fields' = missing_of(get_table_fields(columns[table_id], outcome))
                /\ IF missing_fields' = <<>>
                   THEN mi' = 0 /\ AfterEnsure
                   ELSE mi' = 1 /\ spc' = "ensure_create" /\ Running
    /\ UNCHANGED <<store_vars, input_vars, token, base_id, table_id, existing_fields, ri,
                   existing_id, created, updated, failed, other_vars>>

\* A loop over the missing fields that ends after its first round.
more_fields_never(i, missing) == FALSE

\* for field_def in missing_fields: there is a next round.
more_fields(i, missing) == i < Len(missing)

\* ensure_fields_exist: create_field for one missing field. The exception
\* of a failed HTTP call is caught nowhere.
EnsureCreateField ==
    /\ spc = "ensure_create"
    /\ \E outcome \in Outcomes :
        /\ CanCome(outcome)
        /\ Issue("create_field", missing_fields[mi], outcome)
        /\ columns' = IF outcome = "ok"
                      THEN [columns EXCEPT ![table_id] = @ \cup {missing_fields[mi]}]
                      ELSE columns
        /\ IF outcome = "raise"
           THEN Crash /\ UNCHANGED mi
           ELSE IF more_fields(mi, missing_fields)
                THEN mi' = mi + 1 /\ spc' = "ensure_create" /\ Running
                ELSE mi' = mi /\ AfterEnsure
    /\ UNCHANGED <<rows, bases, input_vars, token, base_id, table_id, missing_fields,
                   existing_fields, ri, existing_id, created, updated, failed, other_vars>>

\* sync_to_feishu: existing_fields = get_table_fields(...), then the loop
\* is entered.
GetTableFields ==
    /\ spc = "get_fields"
    /\ \E outcome \in Outcomes :
        /\ CanCome(outcome)
        /\ Issue("get_fields", table_id, outcome)
        /\ IF outcome = "raise"
           THEN Crash /\ UNCHANGED <<existing_fields, ri>>
           ELSE /\ existing_fields' = get_table_fields(columns[table_id], outcome)
                /\ ri' = 1
                /\ spc' = IF sync_repos = <<>> THEN "summary" ELSE "search"
                /\ Running
    /\ UNCHANGED <<store_vars, input_vars, token, base_id, table_id, missing_fields, mi,
                   existing_id, created, updated, failed, other_vars>>

\* A loop that stays on the record it has handled.
SameRecord == ri' = ri /\ spc' = "search"

\* The loop goes to the next record, or ends.
NextRecord ==
    IF ri < Len(sync_repos)
    THEN ri' = ri + 1 /\ spc' = "search"
    ELSE ri' = ri /\ spc' = "summary"

\* An except block that leaves the loop.
leave_loop == ri' = ri /\ spc' = "summary"

\* except Exception: the record is given up and the loop goes on.
Caught == NextRecord

\* The loop body: search_existing_record. An exception is caught by the
\* except block of the loop, which counts the record as failed.
SearchExistingRecord ==
    /\ spc = "search"
    /\ \E outcome \in Outcomes :
        /\ CanCome(outcome)
        /\ Issue("search", sync_repos[ri].full_name, outcome)
        /\ IF outcome = "raise"
           THEN /\ failed' = failed + 1
                /\ existing_id' = None
                /\ Caught
           ELSE /\ existing_id' = search_existing_record(rows[table_id],
                                                         sync_repos[ri].full_name, outcome)
                /\ spc' = "write"
                /\ UNCHANGED <<failed, ri>>
    /\ Running
    /\ UNCHANGED <<store_vars, input_vars, token, base_id, table_id, missing_fields, mi,
                   existing_fields, created, updated, other_vars>>

\* A loop body that writes a new row whatever the search returned.
always_create(id) == FALSE

\* if existing_id: update_record, else: create_record
found(id) == truthy(id)

\* A loop that counts a write as failed only when it raised.
write_failed_on_exception(outcome) == outcome = "raise"

\* failed += 1: update_record / create_record returned False, or raised and
\* the except block was entered.
write_failed(outcome) == outcome # "ok"

\* The loop body: update_record when the search found a row, create_record
\* when it did not; True counts as updated / created, False and an
\* exception as failed.
WriteRecord ==
    /\ spc = "write"
    /\ \E outcome \in Outcomes :
        /\ CanCome(outcome)
        /\ IF found(existing_id)
           THEN /\ IssueWrite("update", sync_repos[ri].full_name, outcome,
                              update_fields(sync_repos[ri], existing_fields, now), existing_id,
                              rows[table_id][RowIndex(rows[table_id], existing_id)])
                /\ rows' = IF outcome = "ok"
                           THEN [rows EXCEPT ![table_id][RowIndex(rows[table_id], existing_id)] =
                                    written(@, update_fields(sync_repos[ri], existing_fields, now))]
                           ELSE rows
                /\ updated' = IF outcome = "ok" THEN updated + 1 ELSE updated
                /\ UNCHANGED created
           ELSE /\ IssueWrite("create", sync_repos[ri].full_name, outcome,
                              create_fields(sync_repos[ri], existing_fields, now), None,
                              EmptyDict)
                /\ rows' = IF outcome = "ok"
                           THEN [rows EXCEPT ![table_id] =
                                    Append(@, create_fields(sync_repos[ri], existing_fields, now))]
                           ELSE rows
                /\ created' = IF outcome = "ok" THEN created + 1 ELSE created
                /\ UNCHANGED updated
        /\ failed' = IF write_failed(outcome) THEN failed + 1 ELSE failed
        /\ IF outcome = "raise" THEN Caught ELSE NextRecord
    /\ existing_id' = None
    /\ Running
    /\ UNCHANGED <<columns, bases, input_vars, token, base_id, table_id, missing_fields, mi,
                   existing_fields, other_vars>>

\* sync_to_feishu returns its summary and main returns 0.
ReturnSummary ==
    /\ spc = "summary"
    /\ UNCHANGED <<store_vars, input_vars, local_vars, faults, run_faults, ncalls, calls, other_vars>>
    /\ Exit("summary", 0)

\* The script is started again with the same command line, on the same input
\* file or on the file of a later fetch, in the same environment.
NextRun ==
    /\ spc = "exited"
    /\ now < MaxRuns
    /\ now' = now + 1
    /\ sync_repos' \in IF ids_supplied
                       THEN {sync_repos, [k \in 1..Len(sync_repos) |-> changed(sync_repos[k])]}
                       ELSE {sync_repos}
    /\ spc' = "main"
    /\ token' = None /\ base_id' = None /\ table_id' = None
    /\ missing_fields' = <<>> /\ mi' = 0 /\ existing_fields' = {}
    /\ ri' = 0 /\ existing_id' = None /\ created' = 0 /\ updated' = 0 /\ failed' = 0
    /\ exit_code' = None /\ run_faults' = 0 /\ ncalls' = 0 /\ calls' = <<>>
    /\ UNCHANGED <<store_vars, args, config, faults, history, other_vars>>

NextSync ==
    \/ Main \/ GetTenantAccessToken
    \/ CreateBitable \/ GetDefaultTable \/ CreateTable
    \/ EnsureGetTableFields \/ EnsureCreateField \/ GetTableFields
    \/ SearchExistingRecord \/ WriteRecord \/ ReturnSummary
    \/ NextRun

\* Runs of the sync script, one after the other, against the store.
SpecSync == InitSync /\ [][NextSync]_vars

(***************************************************************************)
(*                 Properties of the fetch script                          *)
(***************************************************************************)

\* fetch_all_trending has returned its envelope.
Aggregated == fpc \in {"truncate", "done"}

NamesOf(s) == {s[i].full_name : i \in 1..Len(s)}
IndicesOf(s, n) == {i \in 1..Len(s) : s[i].full_name = n}
FirstIndex(s, n) == CHOOSE i \in IndicesOf(s, n) : \A j \in IndicesOf(s, n) : i <= j

\* C1 (as amended): deduplicate_repos returns exactly one record for each
\* distinct non-empty full_name of its input, the record at the first
\* position of that full_name, in input order; records whose full_name is
\* absent or empty are dropped.
C1_DedupKeepsFirstNonEmpty ==
    Aggregated =>
        /\ \A n \in NamesOf(normalized) :
              Cardinality(IndicesOf(unique, n)) = IF truthy(n) THEN 1 ELSE 0
        /\ \A j \in 1..Len(unique) :
              /\ unique[j].full_name \in NamesOf(normalized)
              /\ unique[j] = normalized[FirstIndex(normalized, unique[j].full_name)]
        /\ \A j, k \in 1..Len(unique) :
              j < k => FirstIndex(normalized, unique[j].full_name)
                          < FirstIndex(normalized, unique[k].full_name)

\* C1 as stated: one record in the output for every full_name value that
\* occurs in the input (an absent full_name is not counted as a value).
C1_OneRecordPerFullName ==
    Aggregated =>
        \A n \in NamesOf(normalized) \ {None} : Cardinality(IndicesOf(unique, n)) = 1

\* A stream with a repeated full_name under two star counts and a record
\* with an empty full_name has been deduplicated.
C1_Witness ==
    /\ Aggregated
    /\ Len(unique) = 1
    /\ "" \in NamesOf(normalized)
    /\ \E i, j \in 1..Len(normalized) :
          /\ i < j
          /\ normalized[i].full_name = normalized[j].full_name
          /\ truthy(normalized[i].full_name)
          /\ normalized[i].stargazers_count # normalized[j].stargazers_count

PositionIn(s, r) == CHOOSE k \in 1..Len(s) : s[k] = r

\* C2: in the envelope of fetch_all_trending the star counts never increase
\* along repositories, the repositories are the deduplicated records, and
\* records with equal star counts keep the order they had before the sort.
C2_StableDescendingRank ==
    Aggregated =>
        LET repositories == data.repositories
        IN  /\ Len(repositories) = Len(unique)
            /\ \A i \in 1..Len(unique) : \E k \in 1..Len(repositories) : repositories[k] = unique[i]
            /\ \A i, j \in 1..Len(repositories) :
                  i < j =>
                    /\ repositories[i].stargazers_count >= repositories[j].stargazers_count
                    /\ repositories[i].stargazers_count = repositories[j].stargazers_count
                          => PositionIn(unique, repositories[i]) < PositionIn(unique, repositories[j])

\* Two records tie on stars behind a record with more stars that came last.
C2_Witness ==
    /\ Aggregated
    /\ Len(unique) = 2
    /\ unique[1].stargazers_count = unique[2].stargazers_count
    /\ data.repositories = unique
    /\ Len(normalized) = 3

\* C3 (as amended): the written envelope holds the first min(limit, n)
\* ranked records when the limit is not negative, and the ranked records
\* without their last -limit ones (max(0, n + limit) records) when it is
\* negative, n being the number of deduplicated records.
C3_TruncationBySlice ==
    fpc = "done" =>
        LET n == Len(unique)
            kept == IF output.limit >= 0 THEN Min(output.limit, n)
                    ELSE Max(0, n + output.limit)
        IN  /\ Len(output.repositories) = kept
            /\ output.total_count = kept
            /\ output.repositories = SubSeq(data.repositories, 1, kept)

\* C3 as stated: len(repositories) = min(limit, deduplicated count) for
\* every integer limit.
C3_LengthIsMinOfLimit ==
    fpc = "done" => Len(output.repositories) = Min(output.limit, Len(unique))

\* A negative limit applied to two ranked records.
C3_Witness ==
    /\ fpc = "done"
    /\ output.limit = -1
    /\ Len(unique) = 2
    /\ Len(output.repositories) = 1

\* C4: deduplication comes before ranking. A full_name fetched twice with
\* different star counts is in the envelope once, as its first-fetched
\* copy, ranked by that copy's stars; the stream a/x:50, a/x:90, b/y:70
\* gives b/y:70, a/x:50.
C4_DedupBeforeRank ==
    Aggregated =>
        /\ \A i, j \in 1..Len(normalized) :
              ( /\ i < j
                /\ truthy(normalized[i].full_name)
                /\ normalized[i].full_name = normalized[j].full_name
                /\ normalized[i].stargazers_count # normalized[j].stargazers_count
                /\ i = FirstIndex(normalized, normalized[i].full_name) )
              => /\ \E k \in 1..Len(data.repositories) : data.repositories[k] = normalized[i]
                 /\ \A k \in 1..Len(data.repositories) : data.repositories[k] # normalized[j]
        /\ normalized = << [full_name |-> "a/x", stargazers_count |-> 50],
                           [full_name |-> "a/x", stargazers_count |-> 90],
                           [full_name |-> "b/y", stargazers_count |-> 70] >>
              => data.repositories = << [full_name |-> "b/y", stargazers_count |-> 70],
                                        [full_name |-> "a/x", stargazers_count |-> 50] >>

\* The stream of the scenario has been aggregated.
C4_Witness ==
    /\ Aggregated
    /\ all_repos = << [full_name |-> "a/x", stargazers_count |-> 50],
                      [full_name |-> "a/x", stargazers_count |-> 90],
                      [full_name |-> "b/y", stargazers_count |-> 70] >>
    /\ Len(data.repositories) = 2
    /\ data.repositories[1].full_name = "b/y"

\* The items of the calls of the log that succeeded, in call order.
SucceededItems ==
    Concat([k \in 1..Len(call_log) |->
              IF call_log[k].outcome.ok THEN items_of(call_log[k].outcome.result) ELSE <<>>])

\* The calls in declared order: every query, then every topic.
DeclaredCalls ==
    [k \in 1..(NumQueries + NumTopics) |->
        IF k <= NumQueries THEN [kind |-> "query", idx |-> k]
        ELSE [kind |-> "topic", idx |-> k - NumQueries]]

\* C5: whichever search calls raise, every call of the two lists is still
\* issued, the items of the calls that succeeded are exactly the stream
\* handed to deduplication, a failed call adds nothing, and the run goes on
\* to return its envelope.
C5_FailedCallsAreSkipped ==
    LET items == SucceededItems
    IN  /\ all_repos = items
        /\ \A k \in 1..Len(call_log) :
              call_log[k].kind = DeclaredCalls[k].kind /\ call_log[k].idx = DeclaredCalls[k].idx
        /\ fpc \in {"aggregate", "truncate", "done"} => Len(call_log) = NumQueries + NumTopics
        /\ Aggregated =>
              /\ normalized = [i \in 1..Len(items) |-> normalize_repo(items[i])]
              /\ data.total_count = Len(unique)
              /\ data.total_count >= 0
        /\ (call_log # <<>> /\ ~ call_log[Len(call_log)].outcome.ok /\ ~ Aggregated)
              => ENABLED NextFetch

\* The first call failed, a later call delivered an item, and the envelope
\* was returned.
C5_Witness ==
    /\ Aggregated
    /\ ~ call_log[1].outcome.ok
    /\ \E k \in 2..Len(call_log) :
          call_log[k].outcome.ok /\ items_of(call_log[k].outcome.result) # <<>>
    /\ ~ call_log[Len(call_log)].outcome.ok
    /\ data.total_count = 1

\* The calls of the log for one entry of the declared lists.
CallsFor(d) == {k \in 1..Len(call_log) : call_log[k].kind = d.kind /\ call_log[k].idx = d.idx}

\* The search loops are over.
LoopsOver == fpc \in {"aggregate", "truncate", "done"}

\* The calls of the log that delivered an item of this full_name.
Delivering(n) ==
    {k \in 1..Len(call_log) :
        /\ call_log[k].outcome.ok
        /\ \E i \in 1..Len(items_of(call_log[k].outcome.result)) :
              get(items_of(call_log[k].outcome.result)[i], "full_name", None) = n}

\* fetch_all_trending has just returned: its envelope is not yet cut.
JustAggregated == fpc = "truncate"

\* C27: the calls are issued one at a time in declared order, every query
\* before every topic, each entry once whether its call returned or raised:
\* the log is at every moment the first calls of the declared lists, and
\* all of them when the loops are over; the stream is the items in call
\* order, so the record kept for a full_name is one that the first call in
\* declared order to deliver that name has delivered.
C27_OneCallPerEntryInDeclaredOrder ==
    /\ Len(call_log) <= NumQueries + NumTopics
    /\ \A k \in 1..Len(call_log) :
          call_log[k].kind = DeclaredCalls[k].kind /\ call_log[k].idx = DeclaredCalls[k].idx
    /\ LoopsOver => Len(call_log) = NumQueries + NumTopics
    /\ fpc = "aggregate" =>
          /\ all_repos = SucceededItems
          /\ \A k \in 1..(NumQueries + NumTopics) : Cardinality(CallsFor(DeclaredCalls[k])) = 1
    /\ JustAggregated =>
          \A j \in 1..Len(unique) :
              LET from  == Delivering(unique[j].full_name)
                  first == CHOOSE k \in from : \A o \in from : k <= o
                  items == items_of(call_log[first].outcome.result)
              IN  /\ from # {}
                  /\ \E i \in 1..Len(items) : normalize_repo(items[i]) = unique[j]

\* The first query raised and was not called again; the second query and
\* the topic delivered the same full_name, and the envelope has the copy of
\* the query.
C27_Witness ==
    /\ Aggregated
    /\ Len(call_log) = NumQueries + NumTopics
    /\ ~ call_log[1].outcome.ok
    /\ Cardinality(Delivering("a/x")) >= 2
    /\ Len(unique) = 1

(***************************************************************************)
(*                   Properties of the categorizer                         *)
(***************************************************************************)

\* The lowercased fields of a record, each on its own.
FieldsOf(repo) ==
    LET topics == lowered_topics(repo)
    IN  {topics[i] : i \in 1..Len(topics)} \cup {lowered_desc(repo), lowered_name(repo)}

\* Some keyword of rule i is a substring of one single field of the record.
RuleMatchesField(i, repo) ==
    \E f \in FieldsOf(repo) :
        \E k \in 1..Len(CATEGORY_RULES[i].keywords) : contains(f, CATEGORY_RULES[i].keywords[k])

MatchingRules(repo) == {i \in 1..Len(CATEGORY_RULES) : RuleMatchesField(i, repo)}

CategoryNames == {CATEGORY_RULES[i].category : i \in 1..Len(CATEGORY_RULES)}

\* The label of the rule with the empty keyword set.
FallbackLabel ==
    CATEGORY_RULES[CHOOSE i \in 1..Len(CATEGORY_RULES) : CATEGORY_RULES[i].keywords = <<>>].category

\* C6: categorize_repo gives every record one label, a name of the rule
\* table, and a record none of whose fields contains a keyword of any rule
\* gets the label of the rule with the empty keyword set.
C6_CategorizerTotal ==
    cpc = "done" =>
        /\ category \in CategoryNames
        /\ Cardinality({c \in CategoryNames : c = category}) = 1
        /\ MatchingRules(cat_repo) = {} => category = FallbackLabel
        /\ category = FallbackLabel => MatchingRules(cat_repo) = {}

\* A record with topics and no keyword anywhere got the fallback label.
C6_Witness ==
    /\ cpc = "done"
    /\ category = "Other"
    /\ Len(get(cat_repo, "topics", <<>>)) = 2
    /\ cat_repo.description = "nothing special"

\* C7: a record that matches keywords of two or more rules gets the
\* category of the matching rule declared first, wherever the keywords
\* stand in the text and in whichever field.
C7_FirstDeclaredRuleWins ==
    (cpc = "done" /\ Cardinality(MatchingRules(cat_repo)) >= 2) =>
        \E i \in MatchingRules(cat_repo) :
            /\ \A j \in MatchingRules(cat_repo) : i <= j
            /\ category = CATEGORY_RULES[i].category

\* The keyword of a later rule stands in the topics, at the front of the
\* text, the keyword of an earlier rule in the name, at its end.
C7_Witness ==
    /\ cpc = "done"
    /\ get(cat_repo, "topics", <<>>) = <<"chatbot">>
    /\ cat_repo.description = "A RAG demo"
    /\ cat_repo.name = "AutoGPT"
    /\ category = "AutonomousAgent"

\* C8: a rule matches exactly when one of its keywords is a substring of one
\* lowercased field (a topic, the description or the name), also inside a
\* longer word; joining the fields with spaces adds no match, and the label
\* is that of a rule matching in this sense, the fallback label otherwise.
C8_MatchIsPerFieldSubstring ==
    cpc = "done" =>
        /\ \A i \in 1..Len(CATEGORY_RULES) :
              rule_hits(CATEGORY_RULES[i], all_text(cat_repo)) <=> RuleMatchesField(i, cat_repo)
        /\ \A i \in 1..Len(CATEGORY_RULES) :
              (category = CATEGORY_RULES[i].category /\ category # FallbackLabel)
                  => RuleMatchesField(i, cat_repo)
        /\ cat_repo = [topics |-> <<"langchain-agent">>, description |-> "", name |-> "foo"]
              => category = "AgentFramework"

\* Two fields that would spell a keyword if they were run together: the
\* topic "lang" is followed by the description "chain".
C8_Witness ==
    /\ cpc = "done"
    /\ get(cat_repo, "topics", <<>>) = <<"LLM", "lang">>
    /\ cat_repo.description = "chain"
    /\ cat_repo.name = "foo"
    /\ category = "Other"

(***************************************************************************)
(*                 Properties of the sync script                           *)
(***************************************************************************)

\* The runs k whose next run exists, both having returned a summary, the
\* next one on the same input records.
Reruns ==
    {k \in 1..(Len(history) - 1) :
        /\ history[k].kind = "summary" /\ history[k + 1].kind = "summary"
        /\ history[k + 1].repos = history[k].repos}

\* Run k and the next wrote to the same table, the one the environment names.
SameTarget(k) == ids_supplied /\ history[k].table_id = history[k + 1].table_id

\* No call of run k or of the next run failed.
NoFailure(k) == history[k].clean /\ history[k + 1].clean

\* C9: when two runs in sequence are given the same input records and the
\* same base id and table id, and no call of either run fails, the second
\* run creates no row: it updates one row for every record, counts no
\* failure, and leaves as many rows in the table as the first run left.
C9_RerunOnSameTableCreatesNothing ==
    \A k \in Reruns :
        SameTarget(k) /\ NoFailure(k) =>
            /\ history[k + 1].created = 0
            /\ history[k + 1].updated = Len(history[k + 1].repos)
            /\ history[k + 1].failed = 0
            /\ history[k + 1].rows_after = history[k].rows_after

\* C9 as stated, with no call failing: the second of two runs on the same
\* input records creates no row and leaves the number of rows as the first
\* run left it.
C9_RerunCreatesNothing ==
    \A k \in Reruns :
        NoFailure(k) =>
            /\ history[k + 1].created = 0
            /\ history[k + 1].rows_after = history[k].rows_after

\* Two records were synced to an empty table, which the first run filled,
\* and synced again.
C9_Witness ==
    \E k \in Reruns :
        /\ SameTarget(k) /\ NoFailure(k)
        /\ history[k].repos = <<RepoB, RepoA>>
        /\ history[k].created = 2
        /\ history[k + 1].created = 0
        /\ history[k + 1].rows_after = 2

\* C10: when two runs in sequence are given the same input records and the
\* same base id and table id, and no call of either run fails, the updated
\* count of the second run is the created count plus the updated count of
\* the first; the two updated counts are equal exactly when the first run
\* created nothing.
C10_UpdatedCountOfRerun ==
    \A k \in Reruns :
        SameTarget(k) /\ NoFailure(k) =>
            /\ history[k + 1].updated = history[k].created + history[k].updated
            /\ (history[k + 1].updated = history[k].updated) <=> (history[k].created = 0)

\* C10 as stated, with no call failing: both runs report the same updated count.
C10_SameUpdatedCount ==
    \A k \in Reruns :
        SameTarget(k) /\ NoFailure(k) => history[k + 1].updated = history[k].updated

\* The input names the same record twice: the first run creates its row and
\* updates it, the second updates it twice.
C10_Witness ==
    \E k \in Reruns :
        /\ SameTarget(k) /\ NoFailure(k)
        /\ history[k].repos = <<RepoA, RepoA>>
        /\ history[k].created = 1 /\ history[k].updated = 1
        /\ history[k + 1].updated = 2

\* The number of rows of the supplied table when run k started.
RowsBefore(k) == IF k = 1 THEN 0 ELSE history[k - 1].rows_after

\* Run k synced one record to the supplied table, which had no row, and the
\* next run synced the same record with a changed star count to that table;
\* no call of either run failed.
OneRecordTwice(k) ==
    /\ history[k].kind = "summary" /\ history[k + 1].kind = "summary"
    /\ SameTarget(k) /\ NoFailure(k)
    /\ RowsBefore(k) = 0
    /\ Len(history[k].repos) = 1
    /\ history[k + 1].repos = <<changed(history[k].repos[1])>>

\* C11: one record synced to a table with zero rows is reported as
\* created=1, updated=0 and the table has one row; the same record synced
\* again with a changed star count is reported as created=0, updated=1, the
\* table still has one row and the Stars column of that row holds the new
\* count.
C11_CreateThenUpdateOneRecord ==
    \A k \in 1..(Len(history) - 1) :
        OneRecordTwice(k) =>
            /\ history[k].created = 1 /\ history[k].updated = 0
            /\ history[k].rows_after = 1
            /\ history[k + 1].created = 0 /\ history[k + 1].updated = 1
            /\ history[k + 1].rows_after = 1
            /\ (spc = "exited" /\ Len(history) = k + 1) =>
                  /\ Len(rows[table_id]) = 1
                  /\ rows[table_id][1].Stars = history[k + 1].repos[1].stargazers_count
                  /\ rows[table_id][1].Stars # history[k].repos[1].stargazers_count

\* a/x with 50 stars was created, then synced with 51 stars.
C11_Witness ==
    /\ spc = "exited" /\ Len(history) = 2
    /\ OneRecordTwice(1)
    /\ history[1].repos = <<RepoA>>
    /\ rows[table_id][1].project_name = "a/x"
    /\ rows[table_id][1].Stars = 51

\* The columns update_record writes.
MutableColumns == {"Stars", "Forks", "updated_time"}

\* The last call of the run so far, and the row an update call names.
LastCall == calls[Len(calls)]
RowOf(call) == rows[table_id][RowIndex(rows[table_id], call.record_id)]

\* C12: an update sends the Stars, Forks and updated_time columns that are
\* in the column set of the table, and no other; after it every other
\* column of the row (name, description, language, link, author, tags) is as
\* it was before, whatever the record says, and a sent column holds the
\* sent value.
C12_UpdateWritesMutableColumnsOnly ==
    /\ \A n \in 1..Len(calls) :
          calls[n].op = "update" =>
              /\ DOMAIN calls[n].sent = MutableColumns \cap existing_fields
              /\ DOMAIN calls[n].sent \subseteq columns[table_id]
    /\ (calls # <<>> /\ LastCall.op = "update") =>
          LET before == LastCall.before
              row    == RowOf(LastCall)
          IN  /\ DOMAIN row \ MutableColumns = DOMAIN before \ MutableColumns
              /\ \A col \in DOMAIN before \ MutableColumns : row[col] = before[col]
              /\ LastCall.outcome = "ok" =>
                    \A col \in DOMAIN LastCall.sent : row[col] = LastCall.sent[col]
              /\ LastCall.outcome # "ok" => row = before

\* The record has a new description and a new language, the row keeps the
\* ones it was created with and has the new star count.
C12_Witness ==
    /\ calls # <<>> /\ LastCall.op = "update" /\ LastCall.outcome = "ok"
    /\ sync_repos[1] = changed(RepoA)
    /\ LastCall.arg = "a/x"
    /\ RowOf(LastCall).description = "An agent"
    /\ RowOf(LastCall).language = "Python"
    /\ RowOf(LastCall).Stars = 51

\* The columns create_record has a value for, and those it never sets.
RecordColumns == {"project_name", "description", "Stars", "Forks", "language", "link",
                  "author", "tags", "updated_time"}
UserColumns == {"is_read", "is_followed", "note"}

\* The record of the input with this name.
RecordNamed(name) == sync_repos[CHOOSE k \in 1..Len(sync_repos) : sync_repos[k].full_name = name]

\* The row a create call has just appended.
NewRow == rows[table_id][Len(rows[table_id])]

\* C13: a create sends a value for each of the columns name, description,
\* Stars, Forks, language, link, author and updated_time that is in the
\* column set the run fetched from the table, and for tags when moreover
\* the record has a non-empty topics list; it sends none for is_read,
\* is_followed and note, nor for tags when the topics list is empty. The
\* new row holds the sent values and no other.
C13_CreateWritesRecordColumns ==
    /\ \A n \in 1..Len(calls) :
          calls[n].op = "create" =>
              LET repo == RecordNamed(calls[n].arg)
                  skipped == IF get(repo, "topics", <<>>) = <<>> THEN {"tags"} ELSE {}
              IN  /\ DOMAIN calls[n].sent = (RecordColumns \cap existing_fields) \ skipped
                  /\ DOMAIN calls[n].sent \cap UserColumns = {}
    /\ (calls # <<>> /\ LastCall.op = "create" /\ LastCall.outcome = "ok") =>
          NewRow = LastCall.sent

\* C13 as stated: the created row has a value for every column of the table.
C13_CreateWritesEveryColumn ==
    (calls # <<>> /\ LastCall.op = "create" /\ LastCall.outcome = "ok") =>
        columns[table_id] \subseteq DOMAIN NewRow

\* b/y has no topics: its row is created in a table that has every column,
\* without the tags column and without the three columns left to the user.
C13_Witness ==
    /\ calls # <<>> /\ LastCall.op = "create" /\ LastCall.outcome = "ok"
    /\ LastCall.arg = "b/y"
    /\ existing_fields = FieldNames
    /\ columns[table_id] = FieldNames
    /\ DOMAIN NewRow = RecordColumns \ {"tags"}

\* The search calls of the run so far: one for each record the loop has
\* taken up; the write call of the record, if any, follows its search.
SearchCalls == {n \in 1..Len(calls) : calls[n].op = "search"}
HasWrite(n) == n + 1 <= Len(calls) /\ calls[n + 1].op \in {"create", "update"}

\* A sub-call of the record of search call n failed, with an error response
\* code or with an exception.
SubCallFailed(n) ==
    \/ calls[n].outcome # "ok"
    \/ HasWrite(n) /\ calls[n + 1].outcome # "ok"

\* C14: when the loop is over, failed counts exactly the records one of
\* whose sub-calls (search, create or update) failed, and created and
\* updated count only records none of whose sub-calls failed.
C14_FailedSubCallsAreCounted ==
    spc = "summary" =>
        /\ failed = Cardinality({n \in SearchCalls : SubCallFailed(n)})
        /\ created + updated = Cardinality({n \in SearchCalls : ~ SubCallFailed(n)})

\* The run has entered the loop over the records.
LoopEntered == \E n \in 1..Len(calls) : calls[n].op = "get_fields" /\ calls[n].outcome # "raise"

IsSearch(call) == call.op = "search"
Searches == SelectSeq(calls, IsSearch)

\* Every record up to the one in hand has been searched, in input order,
\* and every record whose search returned has had its write call.
SearchedInOrder ==
    /\ \A j \in 1..Len(Searches) : Searches[j].arg = sync_repos[j].full_name
    /\ \A n \in SearchCalls : (calls[n].outcome # "raise" /\ n < Len(calls)) => HasWrite(n)
    /\ spc = "search" => Len(Searches) = ri - 1
    /\ spc = "write" => Len(Searches) = ri
    /\ spc = "summary" => Len(Searches) = Len(sync_repos)

\* The row a successful create call appended, and the successful write calls
\* that wrote a given row.
CreatedAt(n) ==
    Len(rows[table_id])
        - Cardinality({m \in (n + 1)..Len(calls) :
                          calls[m].op = "create" /\ calls[m].outcome = "ok"})
Wrote(n, idx) ==
    /\ calls[n].op \in {"create", "update"} /\ calls[n].outcome = "ok"
    /\ IF calls[n].op = "create" THEN CreatedAt(n) = idx
       ELSE calls[n].record_id = RecordId(idx)

\* Every column a successful write of this run sent is in its row with the
\* value of the last write that sent it: nothing is taken back.
RowsAsWritten ==
    table_id \in TableIds =>
        \A idx \in 1..Len(rows[table_id]), n \in 1..Len(calls) :
            Wrote(n, idx) =>
                \A col \in DOMAIN calls[n].sent :
                    LET later == {m \in n..Len(calls) :
                                     Wrote(m, idx) /\ col \in DOMAIN calls[m].sent}
                        last  == CHOOSE m \in later : \A o \in later : o <= m
                    IN  rows[table_id][idx][col] = calls[last].sent[col]

\* C15: whichever sub-calls of the loop fail, the loop goes on: every record
\* is searched in input order and written when its search returned, the run
\* ends with the summary and exit code 0, and the rows written earlier in
\* the run stay as they were written.
C15_LoopSurvivesRecordFailures ==
    /\ LoopEntered =>
          /\ SearchedInOrder
          /\ spc = "exited" =>
                /\ history[Len(history)].kind = "summary" /\ exit_code = 0
                /\ Len(Searches) = Len(sync_repos)
                /\ created + updated + failed = Len(sync_repos)
          /\ (spc # "exited" /\ LastCall.outcome # "ok") => ENABLED NextSync
    /\ RowsAsWritten

\* The write of the first record raised; the second record was searched
\* and its row created, and the summary reports one of each.
C15_Witness ==
    /\ spc = "exited" /\ history[Len(history)].kind = "summary"
    /\ Len(sync_repos) = 2
    /\ \E n \in SearchCalls :
          /\ calls[n].arg = sync_repos[1].full_name
          /\ HasWrite(n) /\ calls[n + 1].outcome = "raise"
    /\ failed = 1 /\ created = 1
    /\ rows[table_id] # <<>>
    /\ NewRow.project_name = sync_repos[2].full_name

\* The token exchange of this run was answered with a response code other
\* than 0.
TokenRefused == calls # <<>> /\ calls[1].op = "token" /\ calls[1].outcome = "err"

\* C16: when the token exchange is answered with a response code other
\* than 0 the run ends there with a non-zero exit code: the token exchange
\* is its only call, it has no token, no base and no table, and it counts
\* no record as created, updated or failed.
C16_TokenErrorAbortsRun ==
    TokenRefused =>
        /\ spc = "exited" /\ exit_code # 0
        /\ history[Len(history)].kind = "crash"
        /\ Len(calls) = 1
        /\ token = None /\ base_id = None /\ table_id = None
        /\ created = 0 /\ updated = 0 /\ failed = 0

\* The second run of a sync to the supplied table is refused its token,
\* after a first run that created a row there.
C16_Witness ==
    /\ TokenRefused
    /\ plain(args) /\ ids_supplied
    /\ Len(history) = 2 /\ history[1].created = 1
    /\ Len(rows[config.table_id]) = 1
    /\ exit_code = 1

\* The calls of the run so far with this name.
CallsOf(op) == {n \in 1..Len(calls) : calls[n].op = op}

\* The run has returned its summary.
SummaryReturned == spc = "exited" /\ history[Len(history)].kind = "summary"

\* C17: a run that returns its summary and was given both ids has issued no
\* create-base and no create-table call, and its summary carries the given
\* ids; a run that was not given both has created one base, has created a
\* table only when that base had none, has used the first table of the base
\* when it had one, and its summary carries the ids of the new base and of
\* that table.
C17_TargetIsGivenOrProvisioned ==
    SummaryReturned =>
        LET summary == history[Len(history)]
        IN  IF ids_supplied
            THEN /\ CallsOf("create_bitable") = {} /\ CallsOf("create_table") = {}
                 /\ CallsOf("get_default_table") = {}
                 /\ summary.base_id = config.base_id /\ summary.table_id = config.table_id
            ELSE /\ Cardinality(CallsOf("create_bitable")) = 1
                 /\ Cardinality(CallsOf("get_default_table")) = 1
                 /\ \A n \in CallsOf("get_default_table") :
                       /\ calls[n].tables # <<>> =>
                             /\ CallsOf("create_table") = {}
                             /\ summary.table_id = calls[n].tables[1]
                       /\ calls[n].tables = <<>> => Cardinality(CallsOf("create_table")) = 1
                 /\ summary.base_id = BaseId(bases) /\ summary.table_id = TableId(bases)
                 /\ summary.base_id # config.base_id

\* The create-column calls of the run so far for this column.
CreateCallsFor(c) == {n \in CallsOf("create_field") : calls[n].arg = c}

\* The run before this one returned its summary for this table and every
\* call of it succeeded.
EnsuredBefore ==
    /\ now > 1
    /\ history[now - 1].kind = "summary"
    /\ history[now - 1].clean
    /\ history[now - 1].table_id = table_id

Reconciling ==
    \/ spc \in {"get_fields", "search", "write", "summary"}
    \/ spc = "exited" /\ CallsOf("get_fields") # {}

\* C19: a run of the sync in which a create-column call has failed, by its
\* response code or by an exception of the HTTP call, is still in the loop
\* over the missing columns, or has issued a create-column call for every
\* required column absent from the fetched set and reconciles the records.
C19_ColumnFailureDoesNotAbort ==
    \A g \in CallsOf("ensure_get_fields"), n \in CallsOf("create_field") :
        (calls[n].outcome # "ok" /\ ~ args.create_table) =>
            \/ spc = "ensure_create"
            \/ /\ \A c \in FieldNames \ calls[g].fetched : CreateCallsFor(c) # {}
               /\ Reconciling

\* The store as it is before the first run of a command line that is not
\* the one of a plain sync.
UntouchedStore ==
    /\ bases = 0
    /\ rows = [t \in TableIds |-> <<>>]
    /\ columns = [t \in TableIds |-> IF t = TableId(0) THEN FieldNames ELSE {}]

\* C20: a run with the dry-run flag issues no call to the store, so the
\* store is as it was, and it validates the configuration: it does not
\* return 0 on a configuration without credentials.
C20_DryRunTouchesNothing ==
    args.dry_run =>
        /\ calls = <<>>
        /\ UntouchedStore
        /\ (spc = "exited" /\ history[Len(history)].exit_code = 0)
              => validate_config(config, FALSE)

\* The token exchange of the run has failed, by an exception or by its
\* response code.
AuthenticationFailed == calls # <<>> /\ calls[1].op = "token" /\ calls[1].outcome # "ok"

\* The run has a fatal precondition failure: a credential is missing, the
\* input file is missing, or the authentication failed.
FatalPrecondition == ~ has_credentials \/ ~ args.input_exists \/ AuthenticationFailed

\* C21: a run of the sync script that has ended has exit code 1 when a
\* credential is missing, the input file is missing or the authentication
\* failed, and exit code 0 when it reached the end of the reconcile loop,
\* whatever the count of failed records.
C21_ExitCodes ==
    spc = "exited" =>
        /\ FatalPrecondition => history[Len(history)].exit_code = 1
        /\ history[Len(history)].kind = "summary" => history[Len(history)].exit_code = 0

\* The exception a call of make_request has raised, as its caller catches
\* it: the class and, for an HTTPError, the status in e.code.
Raised(call) == call.outcome.raised

RateLimitResponse(call) == "status" \in DOMAIN call.response /\ call.response.status = 403
ServerErrorResponse(call) == "status" \in DOMAIN call.response /\ call.response.status >= 500
NetworkFailure(call) == "failure" \in DOMAIN call.response

\* C22: make_request does not return on a response with status 403, and
\* the exception it raises then differs, for its caller, from the exception
\* it raises on a 5xx response and from the one it raises on a timeout, a
\* DNS failure or a refused connection: it is an HTTPError with code 403,
\* and make_request has printed the rate-limit line.
C22_RateLimitIsToldApart ==
    \A i \in 1..Len(call_log) :
        RateLimitResponse(call_log[i]) =>
            /\ ~ call_log[i].outcome.returned
            /\ Raised(call_log[i]) = [class |-> "HTTPError", code |-> 403]
            /\ call_log[i].outcome.stderr = "Rate limit exceeded"
            /\ \A j \in 1..Len(call_log) :
                  (ServerErrorResponse(call_log[j]) \/ NetworkFailure(call_log[j])) =>
                      /\ ~ call_log[j].outcome.returned
                      /\ Raised(call_log[j]) # Raised(call_log[i])
                      /\ call_log[j].outcome.stderr # call_log[i].outcome.stderr

\* The Search Client has answered a 403, a 503 and a timeout.
C22_Witness ==
    /\ Len(call_log) = 3
    /\ RateLimitResponse(call_log[1])
    /\ ServerErrorResponse(call_log[2])
    /\ NetworkFailure(call_log[3]) /\ call_log[3].response.failure = "connect_timeout"

\* The placeholder create_record names for a record without language.
Placeholder == "Unknown"

\* C23: the row a successful create call has written for a record whose
\* language is null, into a table with the language column, holds the
\* placeholder in that column.
C23_AbsentLanguageGetsPlaceholder ==
    \A n \in CallsOf("create") :
        (/\ calls[n].outcome = "ok"
         /\ "language" \in DOMAIN calls[n].sent
         /\ RecordNamed(calls[n].arg).language = None)
            => calls[n].sent.language = Placeholder

\* The calls after the authentication that the failure policy names, and
\* those of them issued for a record.
ColumnCalls == {"ensure_get_fields", "create_field", "get_fields"}
RowCalls    == {"search", "create", "update"}

\* The calls of the run so far that timed out: the HTTP call raised.
TimedOut(ops) == {n \in 1..Len(calls) : calls[n].op \in ops /\ calls[n].outcome = "raise"}

\* The run was ended by an exception nobody caught.
Aborted == spc = "exited" /\ history[Len(history)].kind = "crash"

\* C24: a run in which a column fetch, a column create, a row search, a row
\* create or a row update has timed out is not aborted by it, and counts at
\* least one failure for each timed-out call made for a record; a run whose
\* token exchange timed out is aborted.
C24_TimeoutIsCountedNotFatal ==
    /\ TimedOut(ColumnCalls \cup RowCalls) # {} =>
          /\ ~ Aborted
          /\ failed >= Cardinality(TimedOut(RowCalls))
    /\ TimedOut({"token"}) # {} => Aborted

\* The token exchange succeeded before call n.
AuthenticatedBefore(n) == n > 1 /\ calls[1].op = "token" /\ calls[1].outcome = "ok"

\* The base and the table are known before call n: both ids were given to
\* a plain sync, or a base was created and its first table found or a
\* table created in it.
TargetKnownBefore(n) ==
    \/ ids_supplied /\ ~ args.create_table
    \/ /\ \E b \in CallsOf("create_bitable") : b < n /\ calls[b].outcome = "ok"
       /\ \/ \E t \in CallsOf("get_default_table") :
                t < n /\ calls[t].outcome = "ok" /\ calls[t].tables # <<>>
          \/ \E t \in CallsOf("create_table") : t < n /\ calls[t].outcome = "ok"

\* ensure_fields_exist has returned before call n: the columns were
\* fetched and a create-column call was issued, and has returned, for every
\* required column absent from the fetched set.
SchemaEnsuredBefore(n) ==
    \E g \in CallsOf("ensure_get_fields") :
        LET creates == {k \in CallsOf("create_field") : k < n}
        IN  /\ g < n /\ calls[g].outcome # "raise"
            /\ {calls[m].arg : m \in creates} = FieldNames \ calls[g].fetched
            /\ \A m \in creates : calls[m].outcome # "raise"

\* C25: in every run, on the path with supplied ids and on the
\* provisioning path, a call that is just issued comes after the successful
\* token exchange unless it is the token exchange, which is the first; a
\* column fetch or create-column call of the schema step comes after the
\* base and the table are known and before every row call; a row search,
\* create or update comes after the schema step has returned.
C25_PhaseOrder ==
    calls # <<>> =>
        LET n == Len(calls)
        IN  /\ calls[n].op = "token" <=> n = 1
            /\ n > 1 => AuthenticatedBefore(n)
            /\ calls[n].op \in {"ensure_get_fields", "create_field"} =>
                  /\ TargetKnownBefore(n)
                  /\ \A m \in 1..n : calls[m].op \notin RowCalls \cup {"get_fields"}
            /\ calls[n].op \in RowCalls \cup {"get_fields"} =>
                  TargetKnownBefore(n) /\ SchemaEnsuredBefore(n)

\* A run without ids has created its base and its table, ensured the
\* columns and created the row of its record.
C25_Witness ==
    /\ ~ ids_supplied
    /\ \E t \in CallsOf("create_table") : calls[t].outcome = "ok"
    /\ CallsOf("create_field") # {}
    /\ \E n \in CallsOf("create") : calls[n].outcome = "ok"

\* The calls of the run so far that are made for a record, in order.
IsRowCall(call) == call.op \in RowCalls
RowCallSeq == SelectSeq(calls, IsRowCall)

\* The record loop so far: the searches are those of the first records of
\* the input, one each and in input order, and every write comes right
\* after the search of the same record, which has returned.
LoopInOrder ==
    LET rc == RowCallSeq
        searches == SelectSeq(rc, IsSearch)
    IN  /\ Len(searches) <= Len(sync_repos)
        /\ \A j \in 1..Len(searches) : searches[j].arg = sync_repos[j].full_name
        /\ \A k \in 1..Len(rc) :
              rc[k].op # "search" =>
                  /\ k > 1
                  /\ rc[k - 1].op = "search" /\ rc[k - 1].outcome # "raise"
                  /\ rc[k - 1].arg = rc[k].arg
        /\ spc = "summary" => Len(searches) = Len(sync_repos)

\* The loop is at a record: it is about to search it or to write it.
InLoop == spc \in {"search", "write"}

\* What the loop has left to do: two steps for every record not yet
\* searched, one for a record searched and not yet written.
StepsLeft ==
    IF spc = "search" THEN 2 * (Len(sync_repos) - ri) + 2
    ELSE IF spc = "write" THEN 2 * (Len(sync_repos) - ri) + 1
    ELSE 0

\* C26: the records are handled in input order, one search each, at most
\* one write (a create or an update) each, issued after the search of the
\* record has returned; and the loop terminates: at a record it can always
\* take a step, and every step it takes leaves it less to do.
C26_LoopInOrderAndTerminates ==
    /\ [] LoopInOrder
    /\ [] (InLoop => ri \in 1..Len(sync_repos) /\ ENABLED (SearchExistingRecord \/ WriteRecord))
    /\ [][InLoop => StepsLeft' < StepsLeft]_vars

\* The loop has handled two records: the first was created, the search of
\* the second raised and it has no write.
C26_Witness ==
    /\ spc = "summary" /\ Len(sync_repos) = 2
    /\ Len(RowCallSeq) = 3
    /\ RowCallSeq[2].op = "create" /\ RowCallSeq[3].op = "search"
    /\ RowCallSeq[3].outcome = "raise"

\* The row calls of the run so far with this name and one of these outcomes.
RowCallsWith(op, outcomes) ==
    {n \in 1..Len(calls) : calls[n].op = op /\ calls[n].outcome \in outcomes}

\* The records the loop has done with: their search raised, or their write
\* was issued.
RecordsHandled ==
    Cardinality(RowCallsWith("search", {"raise"}))
        + Cardinality(RowCallsWith("create", Outcomes))
        + Cardinality(RowCallsWith("update", Outcomes))

\* C28: at every moment of the loop the three counters add up to the
\* number of records handled, each record in exactly one of them: created
\* counts the creates that succeeded, updated the updates that succeeded,
\* failed the searches that raised and the writes that did not succeed; at
\* the summary the sum is the number of input records, and the summary
\* carries these counters.
C28_CountersAddUp ==
    LoopEntered =>
        /\ created = Cardinality(RowCallsWith("create", {"ok"}))
        /\ updated = Cardinality(RowCallsWith("update", {"ok"}))
        /\ failed = Cardinality(RowCallsWith("search", {"raise"}))
                    + Cardinality(RowCallsWith("create", {"err", "raise"}))
                    + Cardinality(RowCallsWith("update", {"err", "raise"}))
        /\ created + updated + failed = RecordsHandled
        /\ InLoop => RecordsHandled = ri - 1
        /\ spc = "summary" => RecordsHandled = Len(sync_repos)
        /\ SummaryReturned =>
              LET summary == history[Len(history)]
              IN  /\ summary.created = created /\ summary.updated = updated
                  /\ summary.failed = failed
                  /\ summary.created + summary.updated + summary.failed = Len(sync_repos)

\* A run over two records has returned its summary: one update succeeded
\* and one write was answered with an error code.
C28_Witness ==
    /\ SummaryReturned /\ Len(sync_repos) = 2
    /\ updated = 1 /\ failed = 1 /\ created = 0
    /\ RowCallsWith("create", {"err"}) \cup RowCallsWith("update", {"err"}) # {}

\* The rows of a table that have this value in the name column.
RowsNamed(t, name) ==
    {k \in 1..Len(rows[t]) : "project_name" \in DOMAIN rows[t][k] /\ rows[t][k].project_name = name}

\* C29: whatever runs have come before and whichever of their calls have
\* failed, no table holds two rows with the same value in the name column.
C29_NoTwoRowsOfOneName ==
    \A t \in TableIds : \A k \in 1..Len(rows[t]) :
        "project_name" \in DOMAIN rows[t][k] =>
            Cardinality(RowsNamed(t, rows[t][k].project_name)) = 1

\* C30: every create call that has succeeded has sent the full_name of its
\* record in the name column, and every row of every table has its name
\* column set, whatever the schema step has come to.
C30_CreatedRowsAreNamed ==
    /\ \A n \in CallsOf("create") :
          calls[n].outcome = "ok" =>
              /\ "project_name" \in DOMAIN calls[n].sent
              /\ calls[n].sent.project_name = calls[n].arg
    /\ \A t \in TableIds : \A k \in 1..Len(rows[t]) : "project_name" \in DOMAIN rows[t][k]

====
